---- MODULE Spec2Model ----
(***************************************************************************)
(* The versioned entity store of fin-orchestrator-apis: the handlers of    *)
(* src/apis/accounts.py and src/apis/customers.py over the warehouse       *)
(* tables dim_accounts and dim_customers.                                  *)
(*                                                                         *)
(* A table is a sequence of rows in insertion order (a SQL table is a bag: *)
(* two rows may agree on every column; the position is the row's           *)
(* identity).                                                              *)
(*                                                                         *)
(* Instants are integers counted in ticks, TicksPerSecond ticks to the     *)
(* second. datetime.utcnow() reads the clock, which never goes backwards;  *)
(* strftime("%Y-%m-%d %H:%M:%S") drops the ticks below the second. A       *)
(* timestamp text is represented by the instant it denotes.                *)
(*                                                                         *)
(* core/db.py opens the connection with the connector's defaults, so every *)
(* cur.execute() takes effect on the shared table as it is executed        *)
(* (autocommit); conn.commit() adds nothing. Spec runs the requests one    *)
(* after another, each handler in one step; ConcSpec runs the account      *)
(* handlers of several requests statement by statement. CrashSpec lets an  *)
(* update_account end between its statements, LateSpec lets the UPDATE of  *)
(* a delete_account execute after requests served since its parameters     *)
(* were evaluated, WritersSpec is ConcSpec without the reads, RetrySpec is *)
(* Spec without the reads.                                                 *)
(*                                                                         *)
(* The Account request model carries the attributes its docstring lists    *)
(* (accounts.py 15-23), which are the ones the handlers read and write.    *)
(***************************************************************************)
EXTENDS Integers, Sequences, FiniteSets, TLC

\* ------------------------------------------------------------- bounds
MaxRows == 2
MaxTime == 1
TicksPerSecond == 2

\* ------------------------------------------------------------- values
\* Python None / SQL NULL in a timestamp position.
None == -1

\* The three values of a BOOLEAN column / an Optional[bool] attribute.
SqlTrue == "TRUE"
SqlFalse == "FALSE"
SqlNull == "NULL"

AccountIds == {"A1", "A2"}
CustomerIds == {"C1", "C2"}

\* customer_id, account_type, balance, currency of an Account.
AccountPayloads ==
  { [customer_id |-> "C1", account_type |-> "savings", balance |-> 100, currency |-> "USD"],
    [customer_id |-> "C1", account_type |-> "savings", balance |-> 150, currency |-> "USD"] }

\* first_name, last_name, email of a Customer.
CustomerPayloads ==
  { [first_name |-> "Ann", last_name |-> "Lee", email |-> "ann@x.io"],
    [first_name |-> "Ann", last_name |-> "Lee", email |-> "lee@x.io"] }

Instants == 0..MaxTime

\* datetime.utcnow() read when the clock last showed t: it may have advanced.
utcnow(t) == { u \in Instants : t <= u /\ u <= t + 1 } \cup {t}

\* strftime("%Y-%m-%d %H:%M:%S"): the instant with the sub-second part dropped.
strftime(t) == t - (t % TicksPerSecond)

\* TO_VARCHAR(column): the text of the stored instant, None for NULL.
TO_VARCHAR(ts) == IF ts = None THEN None ELSE ts

\* `x or y` on an Optional[str] timestamp: None (and "") is falsy.
OrElse(x, y) == IF x = None THEN y ELSE x

\* ------------------------------------------------------------- accounts
\* The request bodies the handlers are driven with.
Account ==
  { [account_id |-> i, customer_id |-> p.customer_id, account_type |-> p.account_type,
     balance |-> p.balance, currency |-> p.currency,
     created_at |-> c, effective_from |-> None, effective_to |-> None, is_current |-> b] :
    i \in AccountIds, p \in AccountPayloads, c \in {None, 0}, b \in {SqlNull} }

\* The business fields of an Account or of a dim_accounts row.
AccountPayload(a) ==
  [customer_id |-> a.customer_id, account_type |-> a.account_type,
   balance |-> a.balance, currency |-> a.currency]

\* Mutant: the INSERT binds created_at to the effective_from column as well.
AccountRow_CreatedAtTwice(a, created_at, effective_from) ==
  [account_id |-> a.account_id, customer_id |-> a.customer_id,
   account_type |-> a.account_type, balance |-> a.balance, currency |-> a.currency,
   created_at |-> created_at, effective_from |-> created_at,
   effective_to |-> None, is_current |-> SqlTrue]

\* A row of dim_accounts as the two INSERT statements write it.
AccountRow(a, created_at, effective_from) ==
  [account_id |-> a.account_id, customer_id |-> a.customer_id,
   account_type |-> a.account_type, balance |-> a.balance, currency |-> a.currency,
   created_at |-> created_at, effective_from |-> effective_from,
   effective_to |-> None, is_current |-> SqlTrue]

\* Account(account_id=r[0], ...) built from a selected row.
AccountOf(r) ==
  [account_id |-> r.account_id, customer_id |-> r.customer_id,
   account_type |-> r.account_type, balance |-> r.balance, currency |-> r.currency,
   created_at |-> TO_VARCHAR(r.created_at), effective_from |-> TO_VARCHAR(r.effective_from),
   effective_to |-> TO_VARCHAR(r.effective_to), is_current |-> r.is_current]

\* WHERE account_id = %s AND is_current = TRUE: the positions that match.
CurrentAccounts(tbl, account_id) ==
  { i \in DOMAIN tbl : tbl[i].account_id = account_id /\ tbl[i].is_current = SqlTrue }

\* Mutant: the existence check forgets AND is_current = TRUE.
AccountExists_AnyVersion(tbl, account_id) ==
  \E i \in DOMAIN tbl : tbl[i].account_id = account_id

\* SELECT account_id ... WHERE account_id = %s AND is_current = TRUE; fetchone()
AccountExists(tbl, account_id) == CurrentAccounts(tbl, account_id) # {}

\* Mutant: the UPDATE closes one matching row only.
CloseCurrentAccounts_OneRow(tbl, account_id, t) ==
  [ i \in DOMAIN tbl |->
      IF /\ tbl[i].account_id = account_id /\ tbl[i].is_current = SqlTrue
         /\ \A j \in 1..(i - 1) :
              ~(tbl[j].account_id = account_id /\ tbl[j].is_current = SqlTrue)
      THEN [tbl[i] EXCEPT !.is_current = SqlFalse, !.effective_to = t]
      ELSE tbl[i] ]

\* Mutant: the UPDATE forgets AND is_current = TRUE.
CloseCurrentAccounts_AnyVersion(tbl, account_id, t) ==
  [ i \in DOMAIN tbl |->
      IF tbl[i].account_id = account_id
      THEN [tbl[i] EXCEPT !.is_current = SqlFalse, !.effective_to = t]
      ELSE tbl[i] ]

\* UPDATE dim_accounts SET is_current = FALSE, effective_to = %s
\*  WHERE account_id = %s AND is_current = TRUE
CloseCurrentAccounts(tbl, account_id, t) ==
  [ i \in DOMAIN tbl |->
      IF tbl[i].account_id = account_id /\ tbl[i].is_current = SqlTrue
      THEN [tbl[i] EXCEPT !.is_current = SqlFalse, !.effective_to = t]
      ELSE tbl[i] ]

\* dim_accounts after create_account(a) whose clock read gave t.
Created(tbl, a, t) == Append(tbl, AccountRow(a, strftime(t), strftime(t)))

\* dim_accounts after the UPDATE and the INSERT of update_account(account_id, a)
\* whose clock reads gave t1 (effective_to), t2 (created_at, when the body has
\* none) and t3 (effective_from).
Updated(tbl, account_id, a, t1, t2, t3) ==
  Append(CloseCurrentAccounts(tbl, account_id, t1),
         AccountRow(a, OrElse(a.created_at, t2), t3))

\* Mutant: the rowcount counts the closed versions of the id as well.
DeleteRowcount_AnyVersion(tbl, account_id) ==
  Cardinality({ i \in DOMAIN tbl : tbl[i].account_id = account_id })

\* rowcount of delete_account's UPDATE.
DeleteRowcount(tbl, account_id) == Cardinality(CurrentAccounts(tbl, account_id))

\* Mutant: the SELECT has no WHERE clause.
SelectCurrentAccounts_NoWhere(tbl) ==
  [ i \in DOMAIN tbl |-> AccountOf(tbl[i]) ]

\* SELECT ... FROM dim_accounts WHERE is_current = TRUE, as Account objects.
SelectCurrentAccounts(tbl) ==
  LET cur == SelectSeq(tbl, LAMBDA r : r.is_current = SqlTrue)
  IN  [ i \in DOMAIN cur |-> AccountOf(cur[i]) ]

\* ------------------------------------------------------------- customers
\* The request bodies the handlers are driven with.
Customer ==
  { [customer_id |-> i, first_name |-> p.first_name, last_name |-> p.last_name,
     email |-> p.email,
     created_at |-> c, effective_from |-> None, effective_to |-> None, is_current |-> b] :
    i \in CustomerIds, p \in CustomerPayloads, c \in {None, 0},
    b \in {SqlNull, SqlTrue, SqlFalse} }

\* The business fields of a Customer or of a dim_customers row.
CustomerPayload(c) ==
  [first_name |-> c.first_name, last_name |-> c.last_name, email |-> c.email]

\* A row of dim_customers as create_customer's INSERT writes it.
CustomerRow(c, created_at, effective_from) ==
  [customer_id |-> c.customer_id, first_name |-> c.first_name,
   last_name |-> c.last_name, email |-> c.email,
   created_at |-> created_at, effective_from |-> effective_from,
   effective_to |-> OrElse(c.effective_to, None), is_current |-> c.is_current]

\* Customer(customer_id=r[0], ...) built from a selected row.
CustomerOf(r) ==
  [customer_id |-> r.customer_id, first_name |-> r.first_name,
   last_name |-> r.last_name, email |-> r.email,
   created_at |-> TO_VARCHAR(r.created_at), effective_from |-> TO_VARCHAR(r.effective_from),
   effective_to |-> TO_VARCHAR(r.effective_to), is_current |-> r.is_current]

\* WHERE customer_id = %s AND is_current = TRUE: the positions that match.
CurrentCustomers(tbl, customer_id) ==
  { i \in DOMAIN tbl : tbl[i].customer_id = customer_id /\ tbl[i].is_current = SqlTrue }

\* WHERE customer_id = %s: the positions that match.
CustomerRows(tbl, customer_id) ==
  { i \in DOMAIN tbl : tbl[i].customer_id = customer_id }

\* UPDATE dim_customers SET first_name=%s, ..., is_current=%s WHERE customer_id=%s
OverwriteCustomers(tbl, customer_id, c, created_at, effective_from) ==
  [ i \in DOMAIN tbl |->
      IF tbl[i].customer_id = customer_id
      THEN [tbl[i] EXCEPT !.first_name = c.first_name, !.last_name = c.last_name,
                          !.email = c.email, !.created_at = created_at,
                          !.effective_from = effective_from,
                          !.effective_to = c.effective_to,
                          !.is_current = c.is_current]
      ELSE tbl[i] ]

\* DELETE FROM dim_customers WHERE customer_id = %s
DeleteCustomers(tbl, customer_id) ==
  SelectSeq(tbl, LAMBDA r : r.customer_id # customer_id)

\* SELECT ... FROM dim_customers WHERE is_current = TRUE, as Customer objects.
SelectCurrentCustomers(tbl) ==
  LET cur == SelectSeq(tbl, LAMBDA r : r.is_current = SqlTrue)
  IN  [ i \in DOMAIN cur |-> CustomerOf(cur[i]) ]

\* The clock read of `x or datetime.utcnow()`: only taken when x is falsy.
ReadIfNone(x, t) == IF x = None THEN utcnow(t) ELSE {t}

\* The responses.
Ok(v) == [status |-> 200, value |-> v]
NotFound == [status |-> 404, value |-> None]

\* The write requests that run at the same time in ConcSpec.
Procs == {"r1", "r2"}

\* A request slot before its first request.
NoRequest == [op |-> "none", id |-> "", body |-> None, rowcount |-> 0]

\* No overlapping write requests on record.
NoHist == [base |-> <<>>, reqs |-> <<>>, more |-> FALSE]

\* accounts, customers: the tables dim_accounts and dim_customers
\* now:   the last instant the clock was read at
\* last:  the last request of Spec, CustSpec and StoreSpec and its response
\* pc:    ConcSpec, per write request slot: "ready" (no request in flight), or
\*        the next statement of update_account, "close" or "insert"
\*        CrashSpec: also "commit", the INSERT executed and the return to
\*        come; LateSpec: "execute", the UPDATE of delete_account to come
\* req:   ConcSpec, per write request slot: the update_account in flight, with
\*        the rowcount of its UPDATE
\* seen:  ConcSpec: the last read request and the status of its response; torn
\*        is a history field, set when the read ran while an update had closed
\*        the current row of an id it asked for and not yet inserted the
\*        replacement
\* hist:  ConcSpec, history: when write requests overlap, the table as the
\*        first of them began (base) and the first two of them with the
\*        status of their responses (reqs), or that they were more than two
\*        (more)
\*        CrashSpec, history: the update_account last begun, the table it
\*        began on, and whether it was aborted, until the next write request
VARIABLES accounts, customers, now, last, pc, req, seen, hist

vars == <<accounts, customers, now, last, pc, req, seen, hist>>
conc == <<pc, req, seen, hist>>

Init ==
  /\ accounts = <<>>
  /\ customers = <<>>
  /\ now = 0
  /\ last = [op |-> "none", id |-> "", result |-> Ok(None)]
  /\ pc = [p \in Procs |-> "ready"]
  /\ req = [p \in Procs |-> NoRequest]
  /\ seen = [op |-> "none", id |-> "", status |-> 200, torn |-> FALSE]
  /\ hist = NoHist

get_accounts ==
  /\ last' = [op |-> "get_accounts", id |-> "",
              result |-> Ok(SelectCurrentAccounts(accounts))]
  /\ UNCHANGED <<accounts, customers, now, conc>>

get_account(account_id) ==
  /\ \/ /\ CurrentAccounts(accounts, account_id) = {}
        /\ last' = [op |-> "get_account", id |-> account_id,
                    result |-> NotFound]
     \/ \E i \in CurrentAccounts(accounts, account_id) :
          last' = [op |-> "get_account", id |-> account_id,
                   result |-> Ok(AccountOf(accounts[i]))]
  /\ UNCHANGED <<accounts, customers, now, conc>>

create_account(account) ==
  /\ Len(accounts) + Len(customers) < MaxRows
  /\ \E t \in utcnow(now) :
       LET created_at == strftime(t) IN
       /\ accounts' = Created(accounts, account, t)
       /\ now' = t
       /\ last' = [op |-> "create_account", id |-> account.account_id,
                   result |-> Ok([account EXCEPT !.created_at = created_at,
                                                 !.effective_from = created_at])]
  /\ UNCHANGED <<customers, conc>>

update_account(account_id, account) ==
  /\ \/ /\ ~AccountExists(accounts, account_id)
        /\ last' = [op |-> "update_account", id |-> account_id,
                    result |-> NotFound]
        /\ UNCHANGED <<accounts, now>>
     \/ /\ AccountExists(accounts, account_id)
        /\ Len(accounts) + Len(customers) < MaxRows
        /\ \E t1 \in utcnow(now) : \E t2 \in ReadIfNone(account.created_at, t1) :
           \E t3 \in utcnow(t2) : \E t4 \in utcnow(t3) :
             /\ accounts' = Updated(accounts, account_id, account, t1, t2, t3)
             /\ now' = t4
             /\ last' = [op |-> "update_account", id |-> account_id,
                         result |-> Ok([account EXCEPT !.effective_from = strftime(t4),
                                                       !.is_current = SqlTrue])]
  /\ UNCHANGED <<customers, conc>>

delete_account(account_id) ==
  /\ \E t \in utcnow(now) :
       /\ now' = t
       /\ accounts' = CloseCurrentAccounts(accounts, account_id, t)
       /\ last' = [op |-> "delete_account", id |-> account_id,
                   result |-> IF DeleteRowcount(accounts, account_id) = 0
                              THEN NotFound ELSE Ok(None)]
  /\ UNCHANGED <<customers, conc>>

get_customers ==
  /\ last' = [op |-> "get_customers", id |-> "",
              result |-> Ok(SelectCurrentCustomers(customers))]
  /\ UNCHANGED <<accounts, customers, now, conc>>

get_customer(customer_id) ==
  /\ \/ /\ CurrentCustomers(customers, customer_id) = {}
        /\ last' = [op |-> "get_customer", id |-> customer_id,
                    result |-> NotFound]
     \/ \E i \in CurrentCustomers(customers, customer_id) :
          last' = [op |-> "get_customer", id |-> customer_id,
                   result |-> Ok(CustomerOf(customers[i]))]
  /\ UNCHANGED <<accounts, customers, now, conc>>

create_customer(customer) ==
  /\ Len(accounts) + Len(customers) < MaxRows
  /\ \E t1 \in ReadIfNone(customer.created_at, now) :
     \E t2 \in ReadIfNone(customer.effective_from, t1) :
       /\ customers' = Append(customers,
            CustomerRow(customer, OrElse(customer.created_at, strftime(t1)),
                        OrElse(customer.effective_from, strftime(t2))))
       /\ now' = t2
       /\ last' = [op |-> "create_customer", id |-> customer.customer_id,
                   result |-> Ok(customer)]
  /\ UNCHANGED <<accounts, conc>>

update_customer(customer_id, customer) ==
  /\ \E t1 \in ReadIfNone(customer.created_at, now) :
     \E t2 \in ReadIfNone(customer.effective_from, t1) :
       /\ customers' = OverwriteCustomers(customers, customer_id, customer,
                         OrElse(customer.created_at, strftime(t1)),
                         OrElse(customer.effective_from, strftime(t2)))
       /\ now' = t2
       /\ last' = [op |-> "update_customer", id |-> customer_id,
                   result |-> IF CustomerRows(customers, customer_id) = {}
                              THEN NotFound ELSE Ok(customer)]
  /\ UNCHANGED <<accounts, conc>>

delete_customer(customer_id) ==
  /\ customers' = DeleteCustomers(customers, customer_id)
  /\ last' = [op |-> "delete_customer", id |-> customer_id,
              result |-> IF CustomerRows(customers, customer_id) = {}
                         THEN NotFound ELSE Ok(None)]
  /\ UNCHANGED <<accounts, now, conc>>

\* Requests to /accounts, one after another.
AccountsNext ==
  \/ get_accounts
  \/ \E id \in AccountIds : get_account(id)
  \/ \E a \in Account : create_account(a)
  \/ \E id \in AccountIds : \E a \in Account : update_account(id, a)
  \/ \E id \in AccountIds : delete_account(id)

Spec == Init /\ [][AccountsNext]_vars

\* Requests to /customers, one after another.
CustomersNext ==
  \/ get_customers
  \/ \E id \in CustomerIds : get_customer(id)
  \/ \E c \in Customer : create_customer(c)
  \/ \E id \in CustomerIds : \E c \in Customer : update_customer(id, c)
  \/ \E id \in CustomerIds : delete_customer(id)

CustSpec == Init /\ [][CustomersNext]_vars
\* Requests to /accounts and /customers, one after another, with bodies that
\* vary in what decides which rows a read sees: the id and is_current.
StoreAccounts == { a \in Account : a.balance = 100 /\ a.created_at = None }
StoreCustomers == { c \in Customer : c.email = "ann@x.io" /\ c.created_at = None }

StoreNext ==
  \/ get_accounts
  \/ \E id \in AccountIds : get_account(id)
  \/ \E a \in StoreAccounts : create_account(a)
  \/ \E a \in StoreAccounts : update_account(a.account_id, a)
  \/ \E id \in AccountIds : delete_account(id)
  \/ get_customers
  \/ \E id \in CustomerIds : get_customer(id)
  \/ \E c \in StoreCustomers : create_customer(c)
  \/ \E c \in StoreCustomers : update_customer(c.customer_id, c)
  \/ \E id \in CustomerIds : delete_customer(id)

StoreSpec == Init /\ [][StoreNext]_vars

\* ------------------------------------------------------------- concurrency
\* The /accounts handlers of several requests, statement by statement. Every
\* handler but update_account executes one statement; update_account executes
\* its SELECT, its UPDATE and its INSERT in three steps.
ConcAccounts == { a \in Account : a.created_at = None }

Quiescent == \A p \in Procs : pc[p] = "ready"

\* A write request on record: 0 stands for a response not yet given.
Write(p, op, id, body, status) ==
  [proc |-> p, op |-> op, id |-> id, body |-> body, status |-> status]

\* hist once the write request w has begun; inflight: it executes further
\* statements later.
Noted(w, inflight) ==
  IF Quiescent THEN (IF inflight THEN [base |-> accounts, reqs |-> <<w>>, more |-> FALSE]
                     ELSE NoHist)
  ELSE IF hist.more \/ Len(hist.reqs) >= 2 THEN [NoHist EXCEPT !.more = TRUE]
  ELSE [hist EXCEPT !.reqs = Append(@, w)]

\* hist once the update of p has returned with a status: a request that
\* overlapped with no other leaves nothing on record.
Returned(p, status) ==
  IF hist.more THEN (IF \A q \in Procs \ {p} : pc[q] = "ready" THEN NoHist ELSE hist)
  ELSE IF (\A q \in Procs \ {p} : pc[q] = "ready") /\ Len(hist.reqs) < 2 THEN NoHist
  ELSE [hist EXCEPT !.reqs =
          [k \in DOMAIN @ |-> IF @[k].proc = p /\ @[k].status = 0
                              THEN [@[k] EXCEPT !.status = status] ELSE @[k]]]

\* An update has closed the current row(s) of one of `ids` and the id has no
\* current row: what a read of tbl then sees.
Torn(tbl, ids) ==
  \E u \in Procs :
    /\ pc[u] = "insert" /\ req[u].rowcount > 0
    /\ req[u].id \in ids
    /\ CurrentAccounts(tbl, req[u].id) = {}

conc_get_accounts ==
  /\ seen' = [op |-> "get_accounts", id |-> "",
              status |-> Ok(SelectCurrentAccounts(accounts)).status,
              torn |-> Torn(accounts, AccountIds)]
  /\ UNCHANGED <<accounts, customers, now, last, pc, req, hist>>

conc_get_account(account_id) ==
  /\ \/ /\ CurrentAccounts(accounts, account_id) = {}
        /\ seen' = [op |-> "get_account", id |-> account_id,
                    status |-> NotFound.status,
                    torn |-> Torn(accounts, {account_id})]
     \/ \E i \in CurrentAccounts(accounts, account_id) :
          seen' = [op |-> "get_account", id |-> account_id,
                   status |-> Ok(AccountOf(accounts[i])).status, torn |-> FALSE]
  /\ UNCHANGED <<accounts, customers, now, last, pc, req, hist>>

conc_create_account(p, account) ==
  /\ pc[p] = "ready"
  /\ Len(accounts) + Len(customers) < MaxRows
  /\ \E t \in utcnow(now) :
       /\ accounts' = Created(accounts, account, t)
       /\ now' = t
  /\ hist' = Noted(Write(p, "create_account", account.account_id, account, 200), FALSE)
  /\ UNCHANGED <<customers, last, pc, req, seen>>

conc_delete_account(p, account_id) ==
  /\ pc[p] = "ready"
  /\ \E t \in utcnow(now) :
       /\ now' = t
       /\ accounts' = CloseCurrentAccounts(accounts, account_id, t)
  /\ hist' = Noted(Write(p, "delete_account", account_id, None,
                         IF DeleteRowcount(accounts, account_id) = 0
                         THEN NotFound.status ELSE 200), FALSE)
  /\ UNCHANGED <<customers, last, pc, req, seen>>

\* update_account, lines 158-165: the existence check.
update_account_check(p, account_id, account) ==
  /\ pc[p] = "ready"
  /\ IF AccountExists(accounts, account_id)
     THEN /\ pc' = [pc EXCEPT ![p] = "close"]
          /\ req' = [req EXCEPT ![p] =
               [op |-> "update_account", id |-> account_id, body |-> account,
                rowcount |-> 0]]
          /\ hist' = Noted(Write(p, "update_account", account_id, account, 0), TRUE)
     ELSE /\ UNCHANGED <<pc, req>>
          /\ hist' = Noted(Write(p, "update_account", account_id, account,
                                 NotFound.status), FALSE)
  /\ UNCHANGED <<accounts, customers, now, last, seen>>

\* Mutant: the handler goes on to its INSERT without executing the UPDATE.
update_account_close_Skipped(p) ==
  /\ pc[p] = "close"
  /\ pc' = [pc EXCEPT ![p] = "insert"]
  /\ UNCHANGED <<accounts, customers, now, last, req, seen, hist>>

\* update_account, lines 167-170: the UPDATE that closes the current row.
update_account_close(p) ==
  /\ pc[p] = "close"
  /\ \E t1 \in utcnow(now) :
       /\ now' = t1
       /\ accounts' = CloseCurrentAccounts(accounts, req[p].id, t1)
  /\ req' = [req EXCEPT ![p].rowcount = DeleteRowcount(accounts, req[p].id)]
  /\ pc' = [pc EXCEPT ![p] = "insert"]
  /\ UNCHANGED <<customers, last, seen, hist>>

\* update_account, lines 172-190: the INSERT of the new version, and the return.
update_account_insert(p) ==
  /\ pc[p] = "insert"
  /\ Len(accounts) + Len(customers) < MaxRows
  /\ LET account == req[p].body IN
     \E t2 \in ReadIfNone(account.created_at, now) :
     \E t3 \in utcnow(t2) : \E t4 \in utcnow(t3) :
       /\ accounts' = Append(accounts,
                        AccountRow(account, OrElse(account.created_at, t2), t3))
       /\ now' = t4
  /\ req' = [req EXCEPT ![p] = NoRequest]
  /\ pc' = [pc EXCEPT ![p] = "ready"]
  /\ hist' = Returned(p, 200)
  /\ UNCHANGED <<customers, last, seen>>

ConcNext ==
  \/ conc_get_accounts
  \/ \E id \in AccountIds : conc_get_account(id)
  \/ \E p \in Procs :
       \/ \E a \in ConcAccounts : conc_create_account(p, a)
       \/ \E id \in AccountIds : conc_delete_account(p, id)
       \/ \E a \in ConcAccounts : update_account_check(p, a.account_id, a)
       \/ update_account_close(p)
       \/ update_account_insert(p)

ConcSpec == Init /\ [][ConcNext]_vars

\* ------------------------------------------------------------- aborted update
\* One request at a time, update_account statement by statement, and the
\* request may end (the process dies, the connection drops, a statement
\* raises) before any of its statements: what was executed stays executed.
Aborted == 500

\* update_account, lines 173-184: the INSERT of the new version.
update_account_execute_insert(p) ==
  /\ pc[p] = "insert"
  /\ Len(accounts) + Len(customers) < MaxRows
  /\ LET account == req[p].body IN
     \E t2 \in ReadIfNone(account.created_at, now) : \E t3 \in utcnow(t2) :
       /\ accounts' = Append(accounts,
                        AccountRow(account, OrElse(account.created_at, t2), t3))
       /\ now' = t3
  /\ pc' = [pc EXCEPT ![p] = "commit"]
  /\ UNCHANGED <<customers, last, req, seen, hist>>

\* update_account, lines 185-190: commit, close, and the return.
update_account_commit(p) ==
  /\ pc[p] = "commit"
  /\ \E t4 \in utcnow(now) : now' = t4
  /\ req' = [req EXCEPT ![p] = NoRequest]
  /\ pc' = [pc EXCEPT ![p] = "ready"]
  /\ hist' = Returned(p, 200)
  /\ UNCHANGED <<accounts, customers, last, seen>>

\* update_account ends before its next statement; hist keeps the request, and
\* the table it began on, until the next write request.
update_account_abort(p) ==
  /\ pc[p] \in {"close", "insert", "commit"}
  /\ req' = [req EXCEPT ![p] = NoRequest]
  /\ pc' = [pc EXCEPT ![p] = "ready"]
  /\ hist' = [hist EXCEPT !.reqs =
               [k \in DOMAIN @ |-> IF @[k].proc = p /\ @[k].status = 0
                                   THEN [@[k] EXCEPT !.status = Aborted] ELSE @[k]]]
  /\ UNCHANGED <<accounts, customers, now, last, seen>>

\* The one request slot of CrashSpec.
Worker == CHOOSE p \in Procs : TRUE

CrashNext ==
  \/ \E a \in ConcAccounts : conc_create_account(Worker, a)
  \/ \E id \in AccountIds : conc_delete_account(Worker, id)
  \/ \E id \in AccountIds : \E a \in ConcAccounts : update_account_check(Worker, id, a)
  \/ update_account_close(Worker)
  \/ update_account_execute_insert(Worker)
  \/ update_account_commit(Worker)
  \/ update_account_abort(Worker)

CrashSpec == Init /\ [][CrashNext]_vars

\* ------------------------------------------------------------- properties
\* The rows of a table that carry an id, and those of them that are current.
RowsOf(tbl, idcol, id) == { i \in DOMAIN tbl : tbl[i][idcol] = id }
CurrentOf(tbl, idcol, id) ==
  { i \in DOMAIN tbl : tbl[i][idcol] = id /\ tbl[i].is_current = SqlTrue }
ClosedOf(tbl, idcol, id) ==
  { i \in DOMAIN tbl : tbl[i][idcol] = id /\ tbl[i].is_current = SqlFalse }

\* C1 (invariant I1): in every state reached by create, update and delete
\* requests run one after another, every account_id, and every customer_id,
\* has at most one stored row with is_current = TRUE.
C1_AtMostOneCurrent ==
  /\ \A id \in AccountIds : Cardinality(CurrentOf(accounts, "account_id", id)) <= 1
  /\ \A id \in CustomerIds : Cardinality(CurrentOf(customers, "customer_id", id)) <= 1

\* C2: a completed update_account(id, body) with body.account_id = id on an id
\* that had exactly one current row leaves that row stored, closed
\* (is_current = FALSE, effective_to set) and otherwise as it was, leaves exactly
\* one current row for id, which carries the body's business fields and whose
\* effective_from is >= the closed row's effective_to; get_account(id) then
\* returns the body's business fields.
C2_UpdatePostState ==
  [][ \A id \in AccountIds :
        ( /\ last'.op = "update_account" /\ last'.id = id
          /\ last'.result.status = 200
          /\ last'.result.value.account_id = id
          /\ Cardinality(CurrentOf(accounts, "account_id", id)) = 1 )
        => LET old == CHOOSE i \in CurrentOf(accounts, "account_id", id) : TRUE
               payload2 == AccountPayload(last'.result.value)
           IN  /\ old \in DOMAIN accounts'
               /\ accounts'[old].is_current = SqlFalse
               /\ accounts'[old].effective_to # None
               /\ accounts'[old] = [accounts[old] EXCEPT
                                      !.is_current = SqlFalse,
                                      !.effective_to = accounts'[old].effective_to]
               /\ Cardinality(CurrentOf(accounts', "account_id", id)) = 1
               /\ \A n \in CurrentOf(accounts', "account_id", id) :
                    /\ n \notin DOMAIN accounts
                    /\ AccountPayload(accounts'[n]) = payload2
                    /\ accounts'[n].effective_from >= accounts'[old].effective_to
                    /\ AccountPayload(AccountOf(accounts'[n])) = payload2
               /\ AccountExists(accounts', id)
    ]_vars

\* C2's case: an update of an id with one current row has completed, the old
\* version is closed and the new one, with other business fields, is current.
C2_Witness ==
  /\ last.op = "update_account" /\ last.result.status = 200
  /\ last.result.value.account_id = last.id
  /\ \E i \in ClosedOf(accounts, "account_id", last.id) :
     \E n \in CurrentOf(accounts, "account_id", last.id) :
       /\ i < n
       /\ AccountPayload(accounts[i]) # AccountPayload(accounts[n])
       /\ AccountPayload(accounts[n]) = AccountPayload(last.result.value)

\* C3: a successful delete_account(id) leaves no current row for id, however
\* many were current, so that get_account(id) answers 404; it inserts no row
\* and keeps every row that was stored, with its id and business fields.
C3_DeletePostState ==
  [][ \A id \in AccountIds :
        ( last'.op = "delete_account" /\ last'.id = id /\ last'.result.status = 200 )
        => /\ CurrentOf(accounts', "account_id", id) = {}
           /\ ~AccountExists(accounts', id)
           /\ Len(accounts') = Len(accounts)
           /\ \A i \in DOMAIN accounts :
                /\ accounts'[i].account_id = accounts[i].account_id
                /\ AccountPayload(accounts'[i]) = AccountPayload(accounts[i])
                /\ accounts'[i].created_at = accounts[i].created_at
                /\ accounts'[i].effective_from = accounts[i].effective_from
    ]_vars

\* C3's case: a delete has succeeded on an id that had several current rows.
C3_Witness ==
  /\ last.op = "delete_account" /\ last.result.status = 200
  /\ Cardinality(ClosedOf(accounts, "account_id", last.id)) >= 2
  /\ CurrentOf(accounts, "account_id", last.id) = {}

\* C4: update_account(id, body) on an id without a current row answers 404 and
\* leaves dim_accounts exactly as it was.
C4_UpdateNotFound ==
  [][ \A id \in AccountIds :
        ( /\ last'.op = "update_account" /\ last'.id = id
          /\ CurrentOf(accounts, "account_id", id) = {} )
        => /\ last'.result = NotFound
           /\ accounts' = accounts
    ]_vars

\* C4's case: an update was refused on an id whose lineage is soft-deleted.
C4_Witness ==
  /\ last.op = "update_account" /\ last.result = NotFound
  /\ ClosedOf(accounts, "account_id", last.id) # {}
  /\ CurrentOf(accounts, "account_id", last.id) = {}

\* C5: delete_account(id) on an id without a current row answers 404 and leaves
\* dim_accounts exactly as it was; the effective_to of closed rows is kept.
C5_DeleteNotFound ==
  [][ \A id \in AccountIds :
        ( /\ last'.op = "delete_account" /\ last'.id = id
          /\ CurrentOf(accounts, "account_id", id) = {} )
        => /\ last'.result = NotFound
           /\ accounts' = accounts
    ]_vars

\* C5's case: a delete was refused, later than the instant at which the rows of
\* the id were closed.
C5_Witness ==
  /\ last.op = "delete_account" /\ last.result = NotFound
  /\ \E i \in ClosedOf(accounts, "account_id", last.id) : accounts[i].effective_to < now
\* C6: after create on an id without stored rows, for accounts and for
\* customers and for every accepted body (the optional attributes omitted or
\* not), get_current(id) succeeds and returns the body's business fields with
\* is_current = TRUE.
C6_CreateGetRoundTrip ==
  [][ /\ \A a \in Account :
           ( create_account(a) /\ RowsOf(accounts, "account_id", a.account_id) = {} )
           => /\ CurrentAccounts(accounts', a.account_id) # {}
              /\ \A i \in CurrentAccounts(accounts', a.account_id) :
                   /\ AccountPayload(AccountOf(accounts'[i])) = AccountPayload(a)
                   /\ AccountOf(accounts'[i]).is_current = SqlTrue
      /\ \A c \in Customer :
           ( create_customer(c) /\ RowsOf(customers, "customer_id", c.customer_id) = {} )
           => /\ CurrentCustomers(customers', c.customer_id) # {}
              /\ \A i \in CurrentCustomers(customers', c.customer_id) :
                   /\ CustomerPayload(CustomerOf(customers'[i])) = CustomerPayload(c)
                   /\ CustomerOf(customers'[i]).is_current = SqlTrue
    ]_vars

\* C9: when the caller omits created_at and effective_from, the entity that
\* create returns, for accounts and for customers, has both set, to the values
\* of the inserted row as a following read renders them.
C9_CreateReturnsTimestamps ==
  [][ /\ \A a \in Account :
           ( a.created_at = None /\ a.effective_from = None /\ create_account(a) )
           => LET row == AccountOf(accounts'[Len(accounts')])
              IN  /\ last'.result.value.created_at # None
                  /\ last'.result.value.effective_from # None
                  /\ last'.result.value.created_at = row.created_at
                  /\ last'.result.value.effective_from = row.effective_from
      /\ \A c \in Customer :
           ( c.created_at = None /\ c.effective_from = None /\ create_customer(c) )
           => LET row == CustomerOf(customers'[Len(customers')])
              IN  /\ last'.result.value.created_at # None
                  /\ last'.result.value.effective_from # None
                  /\ last'.result.value.created_at = row.created_at
                  /\ last'.result.value.effective_from = row.effective_from
    ]_vars
\* The entities of a listing are the rows of tbl with is_current = TRUE: as
\* many, each entity one of these rows, each of these rows among the entities.
ExactlyCurrent(listing, tbl) ==
  LET cur == { i \in DOMAIN tbl : tbl[i].is_current = SqlTrue }
  IN  /\ Len(listing) = Cardinality(cur)
      /\ \A k \in DOMAIN listing : \E i \in cur : listing[k] = tbl[i]
      /\ \A i \in cur : \E k \in DOMAIN listing : listing[k] = tbl[i]

\* C10: get_accounts and get_customers return exactly the stored rows with
\* is_current = TRUE, get_account(id) and get_customer(id) return only a row
\* of that id with is_current = TRUE, and no read changes a stored row.
C10_ReadsSeeCurrentRows ==
  [][ /\ last'.op \in {"get_accounts", "get_account", "get_customers", "get_customer"}
           => accounts' = accounts /\ customers' = customers
      /\ last'.op = "get_accounts" => ExactlyCurrent(last'.result.value, accounts)
      /\ last'.op = "get_customers" => ExactlyCurrent(last'.result.value, customers)
      /\ (last'.op = "get_account" /\ last'.result.status = 200)
           => \E i \in CurrentOf(accounts, "account_id", last'.id) :
                last'.result.value = accounts[i]
      /\ (last'.op = "get_customer" /\ last'.result.status = 200)
           => \E i \in CurrentOf(customers, "customer_id", last'.id) :
                last'.result.value = customers[i]
    ]_vars

\* C10's case: a listing was read from a table that also holds rows that are
\* not current, and returns a part of it.
C10_Witness ==
  \/ /\ last.op = "get_accounts"
     /\ Len(last.result.value) > 0 /\ Len(last.result.value) < Len(accounts)
  \/ /\ last.op = "get_customers"
     /\ Len(last.result.value) > 0 /\ Len(last.result.value) < Len(customers)
     /\ \E i \in DOMAIN customers : customers[i].is_current = SqlNull
\* C7: no get_account(id) or get_accounts() that runs between the statements
\* of an update_account sees the state in which the update has closed the
\* current row of an id and its replacement is not inserted; get_account(id)
\* never answers 404 because of an update in progress.
C7_NoTornRead == ~seen.torn

\* The table and the status that the handler of the write request w leaves
\* when it runs alone on tbl (timestamps aside: every clock read gives 0).
Serve(tbl, w) ==
  CASE w.op = "create_account" ->
         [tbl |-> Created(tbl, w.body, 0), status |-> 200]
    [] w.op = "update_account" ->
         IF AccountExists(tbl, w.id)
         THEN [tbl |-> Updated(tbl, w.id, w.body, 0, 0, 0), status |-> 200]
         ELSE [tbl |-> tbl, status |-> 404]
    [] w.op = "delete_account" ->
         [tbl |-> CloseCurrentAccounts(tbl, w.id, 0),
          status |-> IF DeleteRowcount(tbl, w.id) = 0 THEN 404 ELSE 200]

\* A table without its timestamps, and the equality of two such as bags of rows.
Shape(tbl) ==
  [ i \in DOMAIN tbl |->
      [account_id |-> tbl[i].account_id, payload |-> AccountPayload(tbl[i]),
       is_current |-> tbl[i].is_current] ]
SameRows(s, t) ==
  /\ Len(s) = Len(t)
  /\ \A i \in DOMAIN s :
       Cardinality({ j \in DOMAIN s : s[j] = s[i] })
         = Cardinality({ j \in DOMAIN t : t[j] = s[i] })

\* C8: when two write requests (create, update, delete of accounts) on the
\* same account_id have overlapped and both have returned, the table
\* (timestamps aside) and the two statuses are those of one of the two serial
\* orders of the two requests from the table they started on.
C8_WritersSerializable ==
  ( /\ Quiescent /\ ~hist.more /\ Len(hist.reqs) = 2
    /\ hist.reqs[1].id = hist.reqs[2].id )
  => \E o \in { <<1, 2>>, <<2, 1>> } :
       LET w1 == hist.reqs[o[1]]
           w2 == hist.reqs[o[2]]
           s1 == Serve(hist.base, w1)
           s2 == Serve(s1.tbl, w2)
       IN  /\ s1.status = w1.status
           /\ s2.status = w2.status
           /\ SameRows(Shape(accounts), Shape(s2.tbl))

\* C11: dim_customers keeps an SCD Type-2 lineage: no customer request removes
\* a stored row or overwrites the business fields of a stored row; a
\* successful update_customer(id, body) closes the current row(s) of id and
\* stores one more row, current and carrying the body; a successful
\* delete_customer(id) leaves id without a current row and every row stored.
C11_CustomerLineageKept ==
  [][ /\ Len(customers') >= Len(customers)
      /\ \A i \in DOMAIN customers :
           /\ customers'[i].customer_id = customers[i].customer_id
           /\ CustomerPayload(customers'[i]) = CustomerPayload(customers[i])
      /\ \A id \in CustomerIds :
           /\ ( last'.op = "update_customer" /\ last'.id = id
                /\ last'.result.status = 200 )
              => /\ Len(customers') = Len(customers) + 1
                 /\ \A i \in CurrentOf(customers, "customer_id", id) :
                      /\ customers'[i].is_current = SqlFalse
                      /\ customers'[i].effective_to # None
                 /\ customers'[Len(customers')].is_current = SqlTrue
           /\ ( last'.op = "delete_customer" /\ last'.id = id
                /\ last'.result.status = 200 )
              => /\ Len(customers') = Len(customers)
                 /\ CurrentOf(customers', "customer_id", id) = {}
    ]_vars

\* C12: an update_account(id, body) that began on a table where id had exactly
\* one current row, at whichever of its statements it stands or was aborted
\* (after the existence check, after the UPDATE, after the INSERT), leaves id
\* with at most one current row; and while the row that was current is still
\* current, no further row has been stored.
C12_CrashSafe ==
  \A k \in DOMAIN hist.reqs :
    LET w == hist.reqs[k] IN
    ( /\ w.op = "update_account"
      /\ Cardinality(CurrentOf(hist.base, "account_id", w.id)) = 1 )
    => /\ Cardinality(CurrentOf(accounts, "account_id", w.id)) <= 1
       /\ \A i \in CurrentOf(hist.base, "account_id", w.id) :
            accounts[i].is_current = SqlTrue => Len(accounts) = Len(hist.base)

\* C12's case: an update of an id with one current row was aborted between its
\* UPDATE and its INSERT, and the id is left without a current row.
C12_Witness ==
  /\ Quiescent
  /\ \E k \in DOMAIN hist.reqs :
       LET w == hist.reqs[k] IN
       /\ w.op = "update_account" /\ w.status = Aborted
       /\ Cardinality(CurrentOf(hist.base, "account_id", w.id)) = 1
       /\ CurrentOf(accounts, "account_id", w.id) = {}
       /\ Len(accounts) = Len(hist.base)

\* C13: create_account, update_account and delete_account invoked for an id
\* leave every stored row of another account_id as it was, and every row they
\* store carries that id, whatever the body; in particular the row stored by
\* update_account(id, body) has account_id = id.
C13_ConfinedToId ==
  [][ \A id \in AccountIds :
        ( /\ last'.op \in {"create_account", "update_account", "delete_account"}
          /\ last'.id = id )
        => /\ Len(accounts') >= Len(accounts)
           /\ \A i \in DOMAIN accounts :
                accounts[i].account_id # id => accounts'[i] = accounts[i]
           /\ \A n \in DOMAIN accounts' \ DOMAIN accounts :
                accounts'[n].account_id = id
    ]_vars

\* C14: created_at is fixed per lineage: a successful update_account(id, body)
\* with body.account_id = id on an id with one current row stores a new
\* version whose created_at is that of the version it supersedes, whether the
\* body omits created_at or supplies one; so the rows of a lineage agree on
\* created_at.
C14_CreatedAtFixed ==
  [][ \A id \in AccountIds :
        ( /\ last'.op = "update_account" /\ last'.id = id
          /\ last'.result.status = 200
          /\ last'.result.value.account_id = id
          /\ Cardinality(CurrentOf(accounts, "account_id", id)) = 1 )
        => \A i \in CurrentOf(accounts, "account_id", id) :
           \A n \in DOMAIN accounts' \ DOMAIN accounts :
             accounts'[n].created_at = accounts[i].created_at
    ]_vars

\* ------------------------------------------------------------- delayed statement
\* The parameters of a statement are evaluated in the handler, before
\* cur.execute() sends it: (datetime.utcnow(), account_id) is read first, the
\* UPDATE takes effect on the table later, and requests of other clients are
\* served in between. LateSpec serves requests one after another, except one
\* delete_account whose UPDATE may execute after later requests.

\* delete_account, lines 209-212: the parameters of the UPDATE are evaluated.
delete_account_bind(p, account_id) ==
  /\ pc[p] = "ready"
  /\ \E t \in utcnow(now) :
       /\ now' = t
       /\ req' = [req EXCEPT ![p] =
            [op |-> "delete_account", id |-> account_id, body |-> None,
             rowcount |-> 0, effective_to |-> t]]
  /\ pc' = [pc EXCEPT ![p] = "execute"]
  /\ UNCHANGED <<accounts, customers, last, seen, hist>>

\* delete_account, lines 209-220: the UPDATE executes, and the return.
delete_account_execute(p) ==
  /\ pc[p] = "execute"
  /\ accounts' = CloseCurrentAccounts(accounts, req[p].id, req[p].effective_to)
  /\ last' = [op |-> "delete_account", id |-> req[p].id,
              result |-> IF DeleteRowcount(accounts, req[p].id) = 0
                         THEN NotFound ELSE Ok(None)]
  /\ req' = [req EXCEPT ![p] = NoRequest]
  /\ pc' = [pc EXCEPT ![p] = "ready"]
  /\ UNCHANGED <<customers, now, seen, hist>>

LateNext ==
  \/ \E a \in ConcAccounts : create_account(a)
  \/ \E a \in ConcAccounts : update_account(a.account_id, a)
  \/ \E id \in AccountIds : delete_account_bind(Worker, id)
  \/ delete_account_execute(Worker)

LateSpec == Init /\ [][LateNext]_vars

\* C15 (invariant I2): the clock never going backwards, every closed row of
\* dim_accounts (is_current = FALSE) has effective_to >= effective_from.
C15_ClosedWindowOrdered ==
  \A i \in DOMAIN accounts :
    accounts[i].is_current = SqlFalse
      => /\ accounts[i].effective_to # None
         /\ accounts[i].effective_to >= accounts[i].effective_from

\* ------------------------------------------------------------- retries
\* The write requests to /accounts one after another, a client sending the
\* request it has sent before among them; bodies without created_at, whose
\* account_id is the id of the path.
RetryNext ==
  \/ \E a \in ConcAccounts : create_account(a)
  \/ \E a \in ConcAccounts : update_account(a.account_id, a)
  \/ \E id \in AccountIds : delete_account(id)

RetrySpec == Init /\ [][RetryNext]_vars

\* What the readers see: for every account_id, the business fields of its
\* current rows.
CurrentPayloads(tbl) ==
  [ id \in AccountIds |->
      { AccountPayload(tbl[i]) : i \in CurrentOf(tbl, "account_id", id) } ]

\* C16: a write to dim_accounts that has succeeded and is sent again leaves
\* the same current state. (a) delete_account(id) right after a successful
\* delete_account(id) answers 404 and leaves the table as it was. (b)
\* update_account(id, body), body.account_id = id, right after the same request
\* has succeeded, succeeds, and leaves id with exactly one current row, which
\* carries the body's business fields, and every account_id with the current
\* business fields it had. (c) The same as (b) for the table that the second
\* UPDATE and INSERT produce from the state the first update has left,
\* whichever instants the clock then shows.
C16_RetryConverges ==
  [][ /\ \A id \in AccountIds :
           ( /\ last.op = "delete_account" /\ last.id = id
             /\ last.result.status = 200
             /\ last'.op = "delete_account" /\ last'.id = id )
           => /\ last'.result = NotFound
              /\ accounts' = accounts
      /\ \A id \in AccountIds :
           ( /\ last.op = "update_account" /\ last.id = id
             /\ last.result.status = 200
             /\ last.result.value.account_id = id
             /\ last'.op = "update_account" /\ last'.id = id
             /\ last'.result.status = 200 =>
                  /\ last'.result.value.account_id = id
                  /\ AccountPayload(last'.result.value) = AccountPayload(last.result.value)
                  /\ last'.result.value.created_at = last.result.value.created_at )
           => /\ last'.result.status = 200
              /\ Cardinality(CurrentOf(accounts', "account_id", id)) = 1
              /\ CurrentPayloads(accounts')[id] = {AccountPayload(last.result.value)}
              /\ CurrentPayloads(accounts') = CurrentPayloads(accounts)
      /\ ( /\ last.op = "update_account" /\ last.result.status = 200
           /\ last.result.value.account_id = last.id )
         => LET id == last.id
                body == last.result.value
            IN  /\ AccountExists(accounts, id)
                /\ \A t1 \in utcnow(now) : \A t2 \in utcnow(t1) : \A t3 \in utcnow(t2) :
                     LET again == Updated(accounts, id, body, t1, t2, t3) IN
                     /\ Cardinality(CurrentOf(again, "account_id", id)) = 1
                     /\ CurrentPayloads(again)[id] = {AccountPayload(body)}
                     /\ CurrentPayloads(again) = CurrentPayloads(accounts)
    ]_vars

\* C16's case: delete_account(id) was sent again for an id whose versions are
\* all closed, and has answered 404.
C16_Witness ==
  /\ last.op = "delete_account" /\ last.result = NotFound
  /\ ClosedOf(accounts, "account_id", last.id) # {}
  /\ CurrentOf(accounts, "account_id", last.id) = {}

\* C17: update_customer(id, body) and delete_customer(id) answer 404 exactly
\* when id has no stored row with is_current = TRUE, which is when
\* get_customer(id) answers 404, and then leave dim_customers as it was.
C17_CustomerNotFound ==
  [][ \A id \in CustomerIds :
        ( /\ last'.op \in {"update_customer", "delete_customer"}
          /\ last'.id = id )
        => /\ (last'.result = NotFound)
                <=> (CurrentOf(customers, "customer_id", id) = {})
           /\ CurrentOf(customers, "customer_id", id) = {}
                => customers' = customers
    ]_vars

\* ------------------------------------------------------------- writers
\* The write requests to /accounts of several clients, statement by statement
\* as in ConcSpec, without the reads, with one body per account_id, and with
\* bodies whose account_id need not be the id of the path.
WritersNext ==
  \E p \in Procs :
    \/ \E a \in StoreAccounts : conc_create_account(p, a)
    \/ \E id \in AccountIds : conc_delete_account(p, id)
    \/ \E id \in AccountIds : \E a \in StoreAccounts : update_account_check(p, id, a)
    \/ update_account_close(p)
    \/ update_account_insert(p)

WritersSpec == Init /\ [][WritersNext]_vars

\* C18: a row of dim_accounts with is_current = FALSE is final: no step of a
\* create, update or delete request, served alone or interleaved with the
\* statements of another, changes any of its fields or removes it; its
\* is_current stays FALSE and its effective_to stays as written.
C18_ClosedRowsFinal ==
  [][ \A i \in DOMAIN accounts :
        accounts[i].is_current = SqlFalse
          => /\ i \in DOMAIN accounts'
             /\ accounts'[i] = accounts[i]
    ]_vars

\* C18's case: a version closed at an earlier instant is stored next to a
\* version of the same id closed later, by a request served after the clock
\* had advanced.
C18_Witness ==
  \E i, j \in DOMAIN accounts :
    /\ i < j
    /\ accounts[i].account_id = accounts[j].account_id
    /\ accounts[i].is_current = SqlFalse /\ accounts[j].is_current = SqlFalse
    /\ accounts[i].effective_to < accounts[j].effective_to
====
